---- MODULE Spec2Model ----
(***************************************************************************)
(* awsm-env: the declaration parser (src/src/parser.rs) and the secret      *)
(* resolution engine (src/src/lib.rs, src/src/providers.rs).                *)
(*                                                                          *)
(* Strings are sequences of one-character strings.  Option<T> is a          *)
(* sequence of length at most one: None is <<>>, Some(v) is <<v>>.          *)
(* An IndexMap is a sequence of <<key, value>> pairs with distinct keys.    *)
(***************************************************************************)
EXTENDS Integers, Sequences, FiniteSets, TLC

VARIABLES
    pc,            \* position in parse / process_entries
    source,        \* parse: the declarations of the input file, in order
    pos,           \* parse: number of declarations consumed
    map,           \* parse: `entries` IndexMap key -> EnvEntry
    warnings,      \* parse: keys for which the duplicate warning was printed
    entries,       \* EnvEntries: parse's result, process_entries' `mut entries`
    given,         \* the entries as process_entries received them
    placeholders,  \* process_entries: placeholder name -> value
    overrides,     \* process_entries: IndexMap of overrides
    sm_entries,    \* process_entries: <<index, expanded id>> of the AwsSm group
    ps_entries,    \* process_entries: <<index, expanded id>> of the AwsPs group
    unique_ids,    \* provider: deduplicated ids not yet requested
    key_map,       \* provider: id -> fetched value
    secrets,       \* what the provider call returned: [provider, kind, error, arg, vals]
    calls,         \* log: the requests issued, [provider, ids]
    reported,      \* log: <<provider, id, status>> answers of the backends
    output,        \* process_entries: `result` IndexMap being built
    result,        \* what the operation returned: [kind, ...]
    id_pattern,    \* replace_placeholders: `id`
    expanded,      \* replace_placeholders: what it returned
    lines,         \* the lines of an input file, by class
    formatted,     \* EnvFormatter::format: the entries given, <<key, value>>
    text           \* EnvFormatter::format: the String returned

vars == <<pc, source, pos, map, warnings, entries, given, placeholders, overrides,
          sm_entries, ps_entries, unique_ids, key_map, secrets, calls, reported,
          output, result, id_pattern, expanded, lines, formatted, text>>

parseVars == <<source, pos, map, warnings>>
expandVars == <<id_pattern, expanded>>
fileVars == <<lines, formatted, text>>

(***************************************************************************)
(* Bounds of the model.                                                     *)
(***************************************************************************)
MaxLines == 3       \* declarations in a parsed file
MaxEntries == 2     \* entries of a small process_entries input
MaxBulk == 22       \* entries of a one-provider bulk input
MaxOverrides == 2   \* overrides given to process_entries
MaxPieces == 4      \* pieces of an id pattern given to replace_placeholders
MaxFileLines == 5   \* lines of an input file
MaxPairs == 2       \* entries given to the formatter

(***************************************************************************)
(* Option, sequences, strings.                                              *)
(***************************************************************************)
None == <<>>
Some(v) == <<v>>
Unwrap(o) == o[1]

Range(s) == {s[i] : i \in 1..Len(s)}

RECURSIVE SeqsUpTo(_, _)
\* all sequences over S of length at most n
SeqsUpTo(S, n) ==
    IF n = 0 THEN {<<>>}
    ELSE LET shorter == SeqsUpTo(S, n - 1)
         IN  shorter \cup {Append(s, x) : s \in shorter, x \in S}

StartsWith(s, p) == Len(s) >= Len(p) /\ SubSeq(s, 1, Len(p)) = p
Drop(s, n) == SubSeq(s, n + 1, Len(s))

RECURSIVE Replace(_, _, _)
\* str::replace: every non-overlapping match of `from`, left to right
Replace(s, from, to) ==
    IF s = <<>> THEN <<>>
    ELSE IF StartsWith(s, from) THEN to \o Replace(Drop(s, Len(from)), from, to)
    ELSE <<s[1]>> \o Replace(Drop(s, 1), from, to)

RECURSIVE Contains(_, _)
Contains(s, p) ==
    IF Len(s) < Len(p) THEN FALSE
    ELSE StartsWith(s, p) \/ Contains(Drop(s, 1), p)

IsSpace(c) == c \in {" ", "\t"}

RECURSIVE TrimStart(_)
TrimStart(s) == IF s # <<>> /\ IsSpace(s[1]) THEN TrimStart(Drop(s, 1)) ELSE s

RECURSIVE TrimEnd(_)
TrimEnd(s) ==
    IF s # <<>> /\ IsSpace(s[Len(s)]) THEN TrimEnd(SubSeq(s, 1, Len(s) - 1)) ELSE s

Trim(s) == TrimEnd(TrimStart(s))

DigitChars == <<"0", "1", "2", "3", "4", "5", "6", "7", "8", "9">>
TwoDigits(n) == <<DigitChars[(n \div 10) + 1], DigitChars[(n % 10) + 1]>>

(***************************************************************************)
(* IndexMap (indexmap crate): insert keeps the position of an existing key  *)
(* and appends a new one.                                                   *)
(***************************************************************************)
IndexOfKey(m, k) ==
    IF \E i \in 1..Len(m) : m[i][1] = k
    THEN CHOOSE i \in 1..Len(m) : m[i][1] = k
    ELSE 0

ContainsKey(m, k) == IndexOfKey(m, k) # 0

IndexMapInsertAppendAlways(m, k, v) == Append(m, <<k, v>>)

IndexMapInsert(m, k, v) ==
    IF ContainsKey(m, k)
    THEN [m EXCEPT ![IndexOfKey(m, k)] = <<k, v>>]
    ELSE Append(m, <<k, v>>)

RECURSIVE IndexMapExtend(_, _)
\* Extend / FromIterator: insert the pairs in iteration order
IndexMapExtend(m, pairs) ==
    IF pairs = <<>> THEN m
    ELSE IndexMapExtend(IndexMapInsert(m, pairs[1][1], pairs[1][2]), Drop(pairs, 1))

IndexMapGet(m, k) == IF ContainsKey(m, k) THEN Some(m[IndexOfKey(m, k)][2]) ELSE None

Keys(m) == [i \in 1..Len(m) |-> m[i][1]]
Values(m) == [i \in 1..Len(m) |-> m[i][2]]

(***************************************************************************)
(* Result values.  Error::AwsSmSdkError, AwsSmApiError and AwsPsSdkError    *)
(* compare equal whatever they wrap (error.rs), so they carry no argument.  *)
(***************************************************************************)
NoResult == [kind |-> "none", error |-> "", arg |-> <<>>, map |-> <<>>]
Ok(m) == [kind |-> "Ok", error |-> "", arg |-> <<>>, map |-> m]
Err(e, a) == [kind |-> "Err", error |-> e, arg |-> a, map |-> <<>>]

\* the Result of replace_placeholders: Err(PlaceholderMissing(name)) is
\* [err |-> Some(name)], Ok(s) is [err |-> None, value |-> s]
NotExpanded == [err |-> None, value |-> <<"not expanded">>]

\* the Result of a provider call
NotCalled == [provider |-> "", kind |-> "none", error |-> "", arg |-> <<>>, vals |-> <<>>]
Provided(p, vals) == [provider |-> p, kind |-> "Ok", error |-> "", arg |-> <<>>, vals |-> vals]
ProviderErr(p, e, a) == [provider |-> p, kind |-> "Err", error |-> e, arg |-> a, vals |-> <<>>]

(***************************************************************************)
(* parser.rs: parse.  The pest grammar (env.pest) hands parse one           *)
(* `declaration` pair per declaration line: an optional directive, the      *)
(* pair_ident and the inner pair_value with its rule.                       *)
(***************************************************************************)
EnvEntry(k, v, s) == [key |-> k, value |-> v, secret |-> s]
SecretConfig(r, p, id) == [required |-> r, provider |-> p, id |-> id]

\* the backtick character (a TLA+ string cannot hold it)
Tick == "tick"

\* parser.rs 101-118: the value of a pair by the rule that matched it
PairValue(rule, raw_value) ==
    CASE rule = "pair_value_dquote" ->
            IF Contains(raw_value, <<"\\", "\"">>)
            THEN Replace(raw_value, <<"\\", "\"">>, <<"\"">>) ELSE raw_value
      [] rule = "pair_value_squote" ->
            IF Contains(raw_value, <<"\\", "'">>)
            THEN Replace(raw_value, <<"\\", "'">>, <<"'">>) ELSE raw_value
      [] rule = "pair_value_tick" ->
            IF Contains(raw_value, <<"\\", Tick>>)
            THEN Replace(raw_value, <<"\\", Tick>>, <<Tick>>) ELSE raw_value
      [] rule = "pair_value_raw" -> Trim(raw_value)

\* parser.rs 120-124
DefaultValue(pair_value) == IF pair_value = <<>> THEN None ELSE Some(pair_value)

DirectiveSecretDropped(directive) == None

\* parser.rs 126-154
DirectiveSecret(directive) ==
    IF directive = None THEN None
    ELSE LET d == Unwrap(directive)
         IN  Some(SecretConfig(~d.optional,
                               IF d.rule = "aws_sm_directive" THEN "AwsSm" ELSE "AwsPs",
                               d.value))

\* parser.rs 156-160
DeclarationEntry(line) ==
    EnvEntry(line.pair_ident,
             DefaultValue(PairValue(line.rule, line.raw_value)),
             DirectiveSecret(line.directive))

Key(i) == <<"K">> \o TwoDigits(i)

Directives ==
    { None,
      Some([rule |-> "aws_sm_directive", value |-> <<"a">>, optional |-> FALSE]),
      Some([rule |-> "aws_ps_directive", value |-> <<"b">>, optional |-> TRUE]) }

PairValues ==
    { [rule |-> "pair_value_raw", raw_value |-> <<>>],
      [rule |-> "pair_value_raw", raw_value |-> <<" ", "v", " ">>],
      [rule |-> "pair_value_dquote", raw_value |-> <<"w", "\\", "\"">>] }

Declarations ==
    { [directive |-> d, pair_ident |-> Key(k), rule |-> v.rule, raw_value |-> v.raw_value] :
        d \in Directives, k \in 1..2, v \in PairValues }

InitParse ==
    /\ pc = "parse"
    /\ source \in SeqsUpTo(Declarations, MaxLines)
    /\ pos = 0
    /\ map = <<>>
    /\ warnings = {}
    /\ entries = <<>>
    /\ given = <<>>
    /\ placeholders = <<>>
    /\ overrides = <<>>
    /\ sm_entries = <<>>
    /\ ps_entries = <<>>
    /\ unique_ids = <<>>
    /\ key_map = <<>>
    /\ secrets = NotCalled
    /\ calls = <<>>
    /\ reported = {}
    /\ output = <<>>
    /\ result = NoResult
    /\ id_pattern = <<>>
    /\ expanded = NotExpanded
    /\ lines = <<>>
    /\ formatted = <<>>
    /\ text = <<>>

resolveVars == <<given, placeholders, overrides, sm_entries, ps_entries, unique_ids,
                 key_map, secrets, calls, reported, output>>

\* parser.rs 81-167: one iteration of `for line in file.into_inner()`
ParseDeclaration ==
    /\ pc = "parse"
    /\ pos < Len(source)
    /\ LET line == source[pos + 1]
           entry == DeclarationEntry(line)
       IN  /\ warnings' = IF ContainsKey(map, line.pair_ident)
                          THEN warnings \cup {line.pair_ident}
                          ELSE warnings
           /\ map' = IndexMapInsert(map, line.pair_ident, entry)
    /\ pos' = pos + 1
    /\ UNCHANGED <<pc, source, entries, result, resolveVars, expandVars, fileVars>>

\* parser.rs 168-173: EOI, then Ok(entries.into_values().collect())
ParseFinish ==
    /\ pc = "parse"
    /\ pos = Len(source)
    /\ entries' = Values(map)
    /\ pc' = "parsed"
    /\ result' = [kind |-> "parsed", error |-> "", arg |-> <<>>, map |-> <<>>]
    /\ UNCHANGED <<source, pos, map, warnings, resolveVars, expandVars, fileVars>>

NextParse == ParseDeclaration \/ ParseFinish

SpecParse == InitParse /\ [][NextParse]_vars

(***************************************************************************)
(* The lines of an input file.  The grammar (env.pest) is not among the     *)
(* source files; what it does with lines is taken from its documentation:   *)
(* a directive comment belongs to the declaration line that follows it,     *)
(* plain comment lines in between are skipped, and a directive that no      *)
(* declaration follows is a comment like another.                           *)
(***************************************************************************)
DirectiveLine(d) ==
    [class |-> "directive", directive |-> Some(d), pair_ident |-> <<>>,
     rule |-> "", raw_value |-> <<>>]
CommentLine ==
    [class |-> "comment", directive |-> None, pair_ident |-> <<>>,
     rule |-> "", raw_value |-> <<>>]
PairLine(k, rule, raw) ==
    [class |-> "pair", directive |-> None, pair_ident |-> k,
     rule |-> rule, raw_value |-> raw]

RECURSIVE GroupLines(_, _)
\* the `declaration` pairs of the lines, `pending` being the directive met
\* since the last declaration
GroupLines(ls, pending) ==
    IF ls = <<>> THEN <<>>
    ELSE LET l == ls[1]
         IN  CASE l.class = "directive" -> GroupLines(Drop(ls, 1), l.directive)
               [] l.class = "comment" -> GroupLines(Drop(ls, 1), pending)
               [] l.class = "pair" ->
                    <<[directive |-> pending, pair_ident |-> l.pair_ident,
                       rule |-> l.rule, raw_value |-> l.raw_value]>>
                    \o GroupLines(Drop(ls, 1), None)

\* parser.rs 75-77, 81-89: EnvParser::parse hands parse the declarations
GroupDeclarations ==
    /\ pc = "group"
    /\ source' = GroupLines(lines, None)
    /\ pc' = "parse"
    /\ UNCHANGED <<pos, map, warnings, entries, result, resolveVars, expandVars, fileVars>>

\* the lines a file is made of: directives, plain comments, declarations
FileLines ==
    { DirectiveLine(Unwrap(d)) : d \in Directives \ {None} } \cup
    { CommentLine } \cup
    { PairLine(Key(k), "pair_value_raw", <<"v">>) : k \in 1..2 }

\* declarations with distinct keys, and no directive right after a directive
FileShape(ls) ==
    /\ \A i, j \in 1..Len(ls) :
           (i # j /\ ls[i].class = "pair" /\ ls[j].class = "pair")
               => ls[i].pair_ident # ls[j].pair_ident
    /\ \A i, j \in 1..Len(ls) :
           (i < j /\ ls[i].class = "directive" /\ ls[j].class = "directive")
               => \E k \in (i + 1)..(j - 1) : ls[k].class = "pair"

InitFile ==
    /\ pc = "group"
    /\ lines \in {ls \in SeqsUpTo(FileLines, MaxFileLines) : FileShape(ls)}
    /\ formatted = <<>>
    /\ text = <<>>
    /\ source = <<>>
    /\ pos = 0
    /\ map = <<>>
    /\ warnings = {}
    /\ entries = <<>>
    /\ given = <<>>
    /\ placeholders = <<>>
    /\ overrides = <<>>
    /\ sm_entries = <<>>
    /\ ps_entries = <<>>
    /\ unique_ids = <<>>
    /\ key_map = <<>>
    /\ secrets = NotCalled
    /\ calls = <<>>
    /\ reported = {}
    /\ output = <<>>
    /\ result = NoResult
    /\ id_pattern = <<>>
    /\ expanded = NotExpanded

NextFile == GroupDeclarations \/ ParseDeclaration \/ ParseFinish

SpecFile == InitFile /\ [][NextFile]_vars

(***************************************************************************)
(* lib.rs: replace_placeholders.                                            *)
(***************************************************************************)
\* lib.rs 98: "\u{FFFF}ESCAPED\u{FFFF}"; "U+FFFF" stands for the character U+FFFF
MARKER == <<"U+FFFF", "E", "S", "C", "A", "P", "E", "D", "U+FFFF">>

\* the characters the regex class \w matches, among those the model uses
WordChars ==
    { "a", "b", "c", "d", "e", "f", "g", "h", "i", "j", "k", "l", "m", "n", "o",
      "p", "q", "r", "s", "t", "u", "v", "w", "x", "y", "z",
      "A", "B", "C", "D", "E", "F", "G", "H", "I", "J", "K", "L", "M", "N", "O",
      "P", "Q", "R", "S", "T", "U", "V", "W", "X", "Y", "Z",
      "0", "1", "2", "3", "4", "5", "6", "7", "8", "9", "_" }

RECURSIVE WordPrefix(_)
\* the longest prefix of s made of word characters (\w+ is greedy)
WordPrefix(s) ==
    IF s # <<>> /\ s[1] \in WordChars THEN <<s[1]>> \o WordPrefix(Drop(s, 1)) ELSE <<>>

RECURSIVE ReplaceTokens(_, _)
\* lib.rs 104-119: re.replace_all with the closure.  Every match of \$(\w+),
\* left to right, is replaced by its value, or by "" when the name is not in
\* placeholders, in which case `missing` is assigned (again at every such match).
ReplaceTokens(s, ph) ==
    IF s = <<>> THEN [out |-> <<>>, missing |-> None]
    ELSE IF s[1] = "$" /\ WordPrefix(Drop(s, 1)) # <<>>
    THEN LET name == WordPrefix(Drop(s, 1))
             rest == ReplaceTokens(Drop(s, 1 + Len(name)), ph)
             known == name \in DOMAIN ph
         IN  [out |-> (IF known THEN ph[name] ELSE <<>>) \o rest.out,
              missing |-> IF rest.missing # None THEN rest.missing
                          ELSE IF known THEN None ELSE Some(name)]
    ELSE LET rest == ReplaceTokens(Drop(s, 1), ph)
         IN  [out |-> <<s[1]>> \o rest.out, missing |-> rest.missing]

\* lib.rs 100-126: [err |-> Some(name)] for Err(PlaceholderMissing(name)),
\* [err |-> None, value |-> s] for Ok(s)
replace_placeholders(id, ph) ==
    LET escaped == Replace(id, <<"$", "$">>, MARKER)
        replaced == ReplaceTokens(escaped, ph)
    IN  IF replaced.missing # None
        THEN [err |-> replaced.missing, value |-> <<>>]
        ELSE [err |-> None, value |-> Replace(replaced.out, MARKER, <<"$">>)]

(***************************************************************************)
(* formatters.rs: EnvFormatter, and the way back through parse.             *)
(***************************************************************************)
\* formatters.rs 29: serde_json::to_string of a &str: the string in double
\* quotes, with the quote, the backslash and the control characters escaped
JsonEscape(c) ==
    CASE c = "\"" -> <<"\\", "\"">>
      [] c = "\\" -> <<"\\", "\\">>
      [] c = "\n" -> <<"\\", "n">>
      [] c = "\t" -> <<"\\", "t">>
      [] OTHER -> <<c>>

RECURSIVE JsonEscaped(_)
JsonEscaped(s) == IF s = <<>> THEN <<>> ELSE JsonEscape(s[1]) \o JsonEscaped(Drop(s, 1))

JsonString(s) == <<"\"">> \o JsonEscaped(s) \o <<"\"">>

RECURSIVE EnvFormat(_)
\* formatters.rs 22-34: "{}={}\n" for every entry
EnvFormat(es) ==
    IF es = <<>> THEN <<>>
    ELSE es[1][1] \o <<"=">> \o JsonString(es[1][2]) \o <<"\n">> \o EnvFormat(Drop(es, 1))

\* formatters.rs 22-34
FormatEnv ==
    /\ pc = "format"
    /\ text' = EnvFormat(formatted)
    /\ pc' = "lex"
    /\ UNCHANGED <<parseVars, entries, result, resolveVars, expandVars, lines, formatted>>

RECURSIVE SplitLines(_)
\* the text cut at its newlines
SplitLines(t) ==
    IF t = <<>> THEN <<>>
    ELSE IF \E i \in 1..Len(t) : t[i] = "\n"
    THEN LET i == CHOOSE j \in 1..Len(t) : t[j] = "\n" /\ \A k \in 1..(j - 1) : t[k] # "\n"
         IN  <<SubSeq(t, 1, i - 1)>> \o SplitLines(Drop(t, i))
    ELSE <<t>>

RECURSIVE LexDquote(_)
\* the grammar's double-quoted value, from the character after the opening
\* quote: up to the first double quote that is not part of a \" escape
LexDquote(t) ==
    IF t = <<>> THEN [ok |-> FALSE, raw |-> <<>>, rest |-> <<>>]
    ELSE IF StartsWith(t, <<"\\", "\"">>)
    THEN LET r == LexDquote(Drop(t, 2))
         IN  [r EXCEPT !.raw = <<"\\", "\"">> \o @]
    ELSE IF t[1] = "\"" THEN [ok |-> TRUE, raw |-> <<>>, rest |-> Drop(t, 1)]
    ELSE LET r == LexDquote(Drop(t, 1))
         IN  [r EXCEPT !.raw = <<t[1]>> \o @]

\* a line KEY="value" of the grammar: [ok, line]
LexLine(l) ==
    LET key == WordPrefix(l)
        after == Drop(l, Len(key))
        value == LexDquote(Drop(after, 2))
    IN  IF key # <<>> /\ StartsWith(after, <<"=", "\"">>) /\ value.ok /\ Trim(value.rest) = <<>>
        THEN [ok |-> TRUE, line |-> PairLine(key, "pair_value_dquote", value.raw)]
        ELSE [ok |-> FALSE, line |-> CommentLine]

\* parser.rs 75: EnvParser::parse(Rule::file, input)?, on the formatter's text
LexText ==
    /\ pc = "lex"
    /\ LET ls == SplitLines(text)
           lexed == [i \in 1..Len(ls) |-> LexLine(ls[i])]
       IN  IF \A i \in 1..Len(ls) : lexed[i].ok
           THEN /\ lines' = [i \in 1..Len(ls) |-> lexed[i].line]
                /\ pc' = "group"
                /\ UNCHANGED result
           ELSE /\ result' = Err("ParseError", <<>>)
                /\ pc' = "done"
                /\ UNCHANGED lines
    /\ UNCHANGED <<parseVars, entries, resolveVars, expandVars, formatted, text>>

\* the values given to the formatter: plain, with a double quote, with a
\* backslash, with a "#", with a newline, with spaces
FormatterValues ==
    { <<"v">>, <<"a", "\"", "b">>, <<"a", "\\", "b">>, <<"#">>, <<"a", "\n", "b">>,
      <<" ", "v", " ">> }

RECURSIVE FormatterEntries(_)
\* at most n entries, with the keys Key(1), Key(2), ...
FormatterEntries(n) ==
    IF n = 0 THEN {<<>>}
    ELSE FormatterEntries(n - 1) \cup
         { Append(es, <<Key(n), v>>) :
             es \in {x \in FormatterEntries(n - 1) : Len(x) = n - 1}, v \in FormatterValues }

InitRoundTrip ==
    /\ pc = "format"
    /\ formatted \in FormatterEntries(MaxPairs) \ {<<>>}
    /\ text = <<>>
    /\ lines = <<>>
    /\ source = <<>>
    /\ pos = 0
    /\ map = <<>>
    /\ warnings = {}
    /\ entries = <<>>
    /\ given = <<>>
    /\ placeholders = <<>>
    /\ overrides = <<>>
    /\ sm_entries = <<>>
    /\ ps_entries = <<>>
    /\ unique_ids = <<>>
    /\ key_map = <<>>
    /\ secrets = NotCalled
    /\ calls = <<>>
    /\ reported = {}
    /\ output = <<>>
    /\ result = NoResult
    /\ id_pattern = <<>>
    /\ expanded = NotExpanded

NextRoundTrip ==
    FormatEnv \/ LexText \/ GroupDeclarations \/ ParseDeclaration \/ ParseFinish

SpecRoundTrip == InitRoundTrip /\ [][NextRoundTrip]_vars

(***************************************************************************)
(* lib.rs: process_entries, lines 26-45: the entries of each provider with  *)
(* their expanded ids; the first expansion error returns (the `?`).         *)
(***************************************************************************)
RECURSIVE GroupEntriesLastError(_, _, _)
GroupEntriesLastError(es, ph, i) ==
    IF i > Len(es) THEN [err |-> None, sm |-> <<>>, ps |-> <<>>]
    ELSE IF es[i].secret = None THEN GroupEntriesLastError(es, ph, i + 1)
    ELSE LET cfg == Unwrap(es[i].secret)
             id == replace_placeholders(cfg.id, ph)
             rest == GroupEntriesLastError(es, ph, i + 1)
         IN  IF rest.err # None THEN rest
             ELSE IF id.err # None THEN [err |-> id.err, sm |-> <<>>, ps |-> <<>>]
             ELSE IF cfg.provider = "AwsSm"
             THEN [rest EXCEPT !.sm = <<<<i, id.value>>>> \o @]
             ELSE [rest EXCEPT !.ps = <<<<i, id.value>>>> \o @]

RECURSIVE GroupEntries(_, _, _)
\* the loop from entry i on: [err, sm, ps]
GroupEntries(es, ph, i) ==
    IF i > Len(es) THEN [err |-> None, sm |-> <<>>, ps |-> <<>>]
    ELSE IF es[i].secret = None THEN GroupEntries(es, ph, i + 1)
    ELSE LET cfg == Unwrap(es[i].secret)
             id == replace_placeholders(cfg.id, ph)
             rest == GroupEntries(es, ph, i + 1)
         IN  IF id.err # None THEN [err |-> id.err, sm |-> <<>>, ps |-> <<>>]
             ELSE IF rest.err # None THEN rest
             ELSE IF cfg.provider = "AwsSm"
             THEN [rest EXCEPT !.sm = <<<<i, id.value>>>> \o @]
             ELSE [rest EXCEPT !.ps = <<<<i, id.value>>>> \o @]

\* the ids handed to the provider: group.iter().map(|(_, id)| id.clone())
IdsOf(group) == [j \in 1..Len(group) |-> group[j][2]]

(***************************************************************************)
(* providers.rs.  process_entries calls Provider::try_provide_secrets, of   *)
(* which the source files hold no definition; the providers' work (dedup,   *)
(* chunks, the backend call and what is done with its response) is that of  *)
(* provide_secrets, the one provider method of providers.rs, and the        *)
(* result is the Option per id that process_entries matches on.             *)
(***************************************************************************)
SmChunkSize == 20
PsChunkSize == 20

NoDedup(ids) == ids

RECURSIVE Dedup(_)
\* providers.rs 34-39, 99: the ids through a HashSet; written here in order
\* of first occurrence, the iteration order being chosen when chunks are cut
Dedup(ids) ==
    IF ids = <<>> THEN <<>>
    ELSE LET front == Dedup(SubSeq(ids, 1, Len(ids) - 1))
             last == ids[Len(ids)]
         IN  IF last \in Range(front) THEN front ELSE Append(front, last)

RECURSIVE Comb(_, _)
\* the subsets of S with k elements
Comb(S, k) ==
    IF k = 0 THEN {{}}
    ELSE IF Cardinality(S) < k THEN {}
    ELSE IF Cardinality(S) = k THEN {S}
    ELSE LET x == CHOOSE y \in S : TRUE
         IN  Comb(S \ {x}, k) \cup {T \cup {x} : T \in Comb(S \ {x}, k - 1)}

\* the elements of s at the positions P, in order
AtPositions(s, P) ==
    LET F[i \in 0..Len(s)] ==
            IF i = 0 THEN <<>>
            ELSE IF i \in P THEN Append(F[i - 1], s[i]) ELSE F[i - 1]
    IN  F[Len(s)]

Min(a, b) == IF a < b THEN a ELSE b

NextChunksOneByOne(ids, n) ==
    { [chunk |-> <<ids[i]>>, rest |-> AtPositions(ids, (1..Len(ids)) \ {i})] :
        i \in 1..Len(ids) }

\* providers.rs 43, 103: the next chunk of `.chunks(n)`.  A HashSet iterates
\* in an unspecified order, so the next n ids are any n of those left; the
\* order inside one request is of no consequence to the backend.
NextChunks(ids, n) ==
    { [chunk |-> AtPositions(ids, P), rest |-> AtPositions(ids, (1..Len(ids)) \ P)] :
        P \in Comb(1..Len(ids), Min(n, Len(ids))) }

\* the secret a backend holds under an id
SecretOf(provider, id) == <<(IF provider = "AwsSm" THEN "s" ELSE "p"), "=">> \o id

\* key_map.extend / key_map.insert for the values of a response
KeyMapExtend(km, provider, names) ==
    [x \in DOMAIN km \cup names |-> IF x \in names THEN SecretOf(provider, x) ELSE km[x]]

\* Option per id from key_map (try_provide_secrets' result)
TryLookup(km, ids) ==
    [j \in 1..Len(ids) |-> IF ids[j] \in DOMAIN km THEN Some(km[ids[j]]) ELSE None]

(***************************************************************************)
(* The backends (AWS Secrets Manager BatchGetSecretValue, SSM               *)
(* GetParameters), as the providers read their responses: a call fails as   *)
(* a whole (SdkError), or answers every requested id: a value, or an entry  *)
(* of `errors` / `invalid_parameters`.                                      *)
(***************************************************************************)
BulkId(i) == <<"k">> \o TwoDigits(i)

\* the ids a backend may lack, and those Secrets Manager may refuse for
\* another reason than "not found"
MissableIds == {<<"a">>, <<"b">>, BulkId(1), BulkId(2)}
DeniableIds == {<<"b">>, BulkId(2)}

SmReplies(chunk) ==
    {[fault |-> TRUE, absent |-> {}, denied |-> {}]} \cup
    UNION { { [fault |-> FALSE, absent |-> A, denied |-> D] :
                D \in SUBSET ((Range(chunk) \cap DeniableIds) \ A) } :
            A \in SUBSET (Range(chunk) \cap MissableIds) }

PsReplies(chunk) ==
    {[fault |-> TRUE, absent |-> {}]} \cup
    { [fault |-> FALSE, absent |-> A] : A \in SUBSET (Range(chunk) \cap MissableIds) }

\* what the log keeps of a response
Answers(provider, chunk, absent, denied) ==
    { <<provider, id, (IF id \in absent THEN "not_found"
                       ELSE IF id \in denied THEN "denied" ELSE "found")>> :
        id \in Range(chunk) }

(***************************************************************************)
(* lib.rs: process_entries.                                                 *)
(***************************************************************************)
ScatterKeepingDefault(es, group, secrets_, j) ==
    [err |-> None,
     entries |-> [i \in 1..Len(es) |->
                    IF es[i].value = None /\ \E k \in 1..Len(group) : group[k][1] = i
                    THEN [es[i] EXCEPT !.value =
                            secrets_[CHOOSE k \in 1..Len(group) : group[k][1] = i]]
                    ELSE es[i]]]

RECURSIVE Scatter(_, _, _, _)
\* lib.rs 53-62, 71-80: the loop over group.zip(secrets), from pair j on
Scatter(es, group, secrets_, j) ==
    IF j > Min(Len(group), Len(secrets_)) THEN [err |-> None, entries |-> es]
    ELSE LET i == group[j][1]
             id == group[j][2]
             secret == secrets_[j]
         IN  IF secret # None
             THEN Scatter([es EXCEPT ![i].value = Some(Unwrap(secret))], group, secrets_, j + 1)
             ELSE IF Unwrap(es[i].secret).required
             THEN [err |-> Some(id), entries |-> es]
             ELSE Scatter(es, group, secrets_, j + 1)

ValuedPairsWithEmpty(es) == [i \in 1..Len(es) |->
    <<es[i].key, IF es[i].value # None THEN Unwrap(es[i].value) ELSE <<>>>>]

\* lib.rs 83-86: filter_map(|e| e.value.map(|v| (e.key, v)))
ValuedPairs(es) ==
    LET F[i \in 0..Len(es)] ==
            IF i = 0 THEN <<>>
            ELSE IF es[i].value # None
            THEN Append(F[i - 1], <<es[i].key, Unwrap(es[i].value)>>)
            ELSE F[i - 1]
    IN  F[Len(es)]

RECURSIVE ExtendKeepingExisting(_, _)
ExtendKeepingExisting(m, ov) ==
    IF ov = <<>> THEN m
    ELSE ExtendKeepingExisting(
             IF ContainsKey(m, ov[1][1]) THEN m ELSE Append(m, ov[1]), Drop(ov, 1))

\* lib.rs 88-92: result.extend(overrides.iter().map(..))
ExtendWithOverrides(m, ov) == IndexMapExtend(m, ov)

\* lib.rs 26-45
GroupByProvider ==
    /\ pc = "resolve"
    /\ LET g == GroupEntries(entries, placeholders, 1)
       IN  IF g.err # None
           THEN /\ result' = Err("PlaceholderMissing", Unwrap(g.err))
                /\ pc' = "done"
                /\ UNCHANGED <<sm_entries, ps_entries>>
           ELSE /\ sm_entries' = g.sm
                /\ ps_entries' = g.ps
                /\ pc' = "sm"
                /\ UNCHANGED result
    /\ UNCHANGED <<parseVars, expandVars, fileVars, entries, given, placeholders, overrides,
                   unique_ids, key_map, secrets, calls, reported, output>>

\* lib.rs 47: the group is empty
SmSkip ==
    /\ pc = "sm"
    /\ sm_entries = <<>>
    /\ pc' = "ps"
    /\ UNCHANGED <<parseVars, expandVars, fileVars, entries, given, placeholders, overrides,
                   sm_entries, ps_entries, unique_ids, key_map, secrets, calls,
                   reported, output, result>>

\* lib.rs 47-50, providers.rs 34-41
SmBegin ==
    /\ pc = "sm"
    /\ sm_entries # <<>>
    /\ unique_ids' = Dedup(IdsOf(sm_entries))
    /\ key_map' = <<>>
    /\ pc' = "sm_fetch"
    /\ UNCHANGED <<parseVars, expandVars, fileVars, entries, given, placeholders, overrides,
                   sm_entries, ps_entries, secrets, calls, reported, output, result>>

\* providers.rs 43-68: one iteration of the loop over the chunks; an Err is
\* returned by process_entries as it is (lib.rs 51)
SmSend ==
    /\ pc = "sm_fetch"
    /\ unique_ids # <<>>
    /\ \E c \in NextChunks(unique_ids, SmChunkSize) : \E reply \in SmReplies(c.chunk) :
        /\ calls' = Append(calls, [provider |-> "AwsSm", ids |-> c.chunk])
        /\ IF reply.fault
           THEN /\ secrets' = ProviderErr("AwsSm", "AwsSmSdkError", <<>>)
                /\ result' = Err("AwsSmSdkError", <<>>)
                /\ pc' = "done"
                /\ UNCHANGED <<unique_ids, key_map, reported>>
           ELSE /\ reported' = reported \cup Answers("AwsSm", c.chunk, reply.absent, reply.denied)
                /\ IF reply.absent \cup reply.denied # {}
                   THEN /\ secrets' = ProviderErr("AwsSm", "AwsSmApiError", <<>>)
                        /\ result' = Err("AwsSmApiError", <<>>)
                        /\ pc' = "done"
                        /\ UNCHANGED <<unique_ids, key_map>>
                   ELSE /\ key_map' = KeyMapExtend(key_map, "AwsSm", Range(c.chunk))
                        /\ unique_ids' = c.rest
                        /\ UNCHANGED <<pc, result, secrets>>
    /\ UNCHANGED <<parseVars, expandVars, fileVars, entries, given, placeholders, overrides,
                   sm_entries, ps_entries, output>>

\* providers.rs 70-78: the result per id, in the order of `ids`
SmReturn ==
    /\ pc = "sm_fetch"
    /\ unique_ids = <<>>
    /\ secrets' = Provided("AwsSm", TryLookup(key_map, IdsOf(sm_entries)))
    /\ pc' = "sm_scatter"
    /\ UNCHANGED <<parseVars, expandVars, fileVars, entries, given, placeholders, overrides,
                   sm_entries, ps_entries, unique_ids, key_map, calls, reported,
                   output, result>>

\* lib.rs 53-62
SmScatter ==
    /\ pc = "sm_scatter"
    /\ LET r == Scatter(entries, sm_entries, secrets.vals, 1)
       IN  IF r.err # None
           THEN /\ result' = Err("ParameterNotFound", Unwrap(r.err))
                /\ pc' = "done"
                /\ UNCHANGED entries
           ELSE /\ entries' = r.entries
                /\ pc' = "ps"
                /\ UNCHANGED result
    /\ UNCHANGED <<parseVars, expandVars, fileVars, given, placeholders, overrides, sm_entries, ps_entries,
                   unique_ids, key_map, secrets, calls, reported, output>>

\* lib.rs 65: the group is empty
PsSkip ==
    /\ pc = "ps"
    /\ ps_entries = <<>>
    /\ pc' = "collect"
    /\ UNCHANGED <<parseVars, expandVars, fileVars, entries, given, placeholders, overrides,
                   sm_entries, ps_entries, unique_ids, key_map, secrets, calls,
                   reported, output, result>>

\* lib.rs 65-68, providers.rs 99-101
PsBegin ==
    /\ pc = "ps"
    /\ ps_entries # <<>>
    /\ unique_ids' = Dedup(IdsOf(ps_entries))
    /\ key_map' = <<>>
    /\ pc' = "ps_fetch"
    /\ UNCHANGED <<parseVars, expandVars, fileVars, entries, given, placeholders, overrides,
                   sm_entries, ps_entries, secrets, calls, reported, output, result>>

\* providers.rs 103-126: one iteration of the loop over the chunks; the
\* invalid parameter named is the first of the response's list; an Err is
\* returned by process_entries as it is (lib.rs 69)
PsSend ==
    /\ pc = "ps_fetch"
    /\ unique_ids # <<>>
    /\ \E c \in NextChunks(unique_ids, PsChunkSize) : \E reply \in PsReplies(c.chunk) :
        /\ calls' = Append(calls, [provider |-> "AwsPs", ids |-> c.chunk])
        /\ IF reply.fault
           THEN /\ secrets' = ProviderErr("AwsPs", "AwsPsSdkError", <<>>)
                /\ result' = Err("AwsPsSdkError", <<>>)
                /\ pc' = "done"
                /\ UNCHANGED <<unique_ids, key_map, reported>>
           ELSE /\ reported' = reported \cup Answers("AwsPs", c.chunk, reply.absent, {})
                /\ IF reply.absent # {}
                   THEN /\ \E invalid \in reply.absent :
                            /\ secrets' = ProviderErr("AwsPs", "ParameterNotFound", invalid)
                            /\ result' = Err("ParameterNotFound", invalid)
                        /\ pc' = "done"
                        /\ UNCHANGED <<unique_ids, key_map>>
                   ELSE /\ key_map' = KeyMapExtend(key_map, "AwsPs", Range(c.chunk))
                        /\ unique_ids' = c.rest
                        /\ UNCHANGED <<pc, result, secrets>>
    /\ UNCHANGED <<parseVars, expandVars, fileVars, entries, given, placeholders, overrides,
                   sm_entries, ps_entries, output>>

\* providers.rs 128-136: the result per id, in the order of `ids`
PsReturn ==
    /\ pc = "ps_fetch"
    /\ unique_ids = <<>>
    /\ secrets' = Provided("AwsPs", TryLookup(key_map, IdsOf(ps_entries)))
    /\ pc' = "ps_scatter"
    /\ UNCHANGED <<parseVars, expandVars, fileVars, entries, given, placeholders, overrides,
                   sm_entries, ps_entries, unique_ids, key_map, calls, reported,
                   output, result>>

\* lib.rs 71-80
PsScatter ==
    /\ pc = "ps_scatter"
    /\ LET r == Scatter(entries, ps_entries, secrets.vals, 1)
       IN  IF r.err # None
           THEN /\ result' = Err("ParameterNotFound", Unwrap(r.err))
                /\ pc' = "done"
                /\ UNCHANGED entries
           ELSE /\ entries' = r.entries
                /\ pc' = "collect"
                /\ UNCHANGED result
    /\ UNCHANGED <<parseVars, expandVars, fileVars, given, placeholders, overrides, sm_entries, ps_entries,
                   unique_ids, key_map, secrets, calls, reported, output>>

\* lib.rs 83-86
CollectResult ==
    /\ pc = "collect"
    /\ output' = IndexMapExtend(<<>>, ValuedPairs(entries))
    /\ pc' = "overrides"
    /\ UNCHANGED <<parseVars, expandVars, fileVars, entries, given, placeholders, overrides,
                   sm_entries, ps_entries, unique_ids, key_map, secrets, calls,
                   reported, result>>

\* the overrides a caller may give: distinct keys, some of them entry keys
OverrideKeys == {Key(1), <<"X">>, <<"Y">>}
OverrideMaps ==
    { [i \in 1..Len(ks) |-> <<ks[i], <<"o", DigitChars[i + 1]>>>>] :
        ks \in {s \in SeqsUpTo(OverrideKeys, MaxOverrides) :
                  \A i, j \in 1..Len(s) : i # j => s[i] # s[j]} }

\* lib.rs 88-94; `overrides` is read here for the first time
ApplyOverrides ==
    /\ pc = "overrides"
    /\ \E ov \in OverrideMaps :
        /\ overrides' = ov
        /\ result' = Ok(ExtendWithOverrides(output, ov))
    /\ pc' = "done"
    /\ UNCHANGED <<parseVars, expandVars, fileVars, entries, given, placeholders, sm_entries, ps_entries,
                   unique_ids, key_map, secrets, calls, reported, output>>

(***************************************************************************)
(* The inputs of process_entries: entries as parse returns them (distinct   *)
(* keys), and the placeholders.                                             *)
(***************************************************************************)
IdPatterns == {<<"a">>, <<"$", "e">>, <<"$", "f">>}
PlaceholderMaps == {<<>>, <<"e">> :> <<"a">>, <<"e">> :> <<"b">>}

SmallEntry(i) ==
    { EnvEntry(Key(i), v, s) :
        v \in {None, Some(<<"d">> \o TwoDigits(i))},
        s \in {None} \cup
              { Some(SecretConfig(r, p, id)) :
                  r \in BOOLEAN, p \in {"AwsSm", "AwsPs"}, id \in IdPatterns } }

RECURSIVE SmallEntries(_)
SmallEntries(n) ==
    IF n = 0 THEN {<<>>}
    ELSE SmallEntries(n - 1) \cup
         { Append(es, e) : es \in {x \in SmallEntries(n - 1) : Len(x) = n - 1},
                           e \in SmallEntry(n) }

\* n entries of one provider; the last one names the id of the first
BulkEntries(p, n) ==
    [i \in 1..n |->
        EnvEntry(Key(i),
                 IF i % 2 = 0 THEN Some(<<"d">> \o TwoDigits(i)) ELSE None,
                 Some(SecretConfig(i % 3 # 0, p,
                                   BulkId(IF i = n /\ n > 1 THEN 1 ELSE i))))]

Init ==
    /\ pc = "resolve"
    /\ source = <<>>
    /\ pos = 0
    /\ map = <<>>
    /\ warnings = {}
    /\ \/ /\ entries \in SmallEntries(MaxEntries)
          /\ placeholders \in PlaceholderMaps
       \/ /\ entries \in {BulkEntries(p, n) : p \in {"AwsSm", "AwsPs"}, n \in 3..MaxBulk}
          /\ placeholders = <<>>
    /\ given = entries
    /\ overrides = <<>>
    /\ sm_entries = <<>>
    /\ ps_entries = <<>>
    /\ unique_ids = <<>>
    /\ key_map = <<>>
    /\ secrets = NotCalled
    /\ calls = <<>>
    /\ reported = {}
    /\ output = <<>>
    /\ result = NoResult
    /\ id_pattern = <<>>
    /\ expanded = NotExpanded
    /\ lines = <<>>
    /\ formatted = <<>>
    /\ text = <<>>

Next ==
    \/ GroupByProvider
    \/ SmSkip \/ SmBegin \/ SmSend \/ SmReturn \/ SmScatter
    \/ PsSkip \/ PsBegin \/ PsSend \/ PsReturn \/ PsScatter
    \/ CollectResult \/ ApplyOverrides

Spec == Init /\ [][Next]_vars

(***************************************************************************)
(* replace_placeholders on its own: the patterns are made of the pieces     *)
(* below, the placeholders define "e", "f", both or neither.                *)
(***************************************************************************)
PatternPieces == {<<"$">>, <<"e">>, <<"f">>, <<"/">>, MARKER}

RECURSIVE Patterns(_)
\* the concatenations of at most n pieces
Patterns(n) ==
    IF n = 0 THEN {<<>>}
    ELSE LET shorter == Patterns(n - 1)
         IN  shorter \cup {s \o x : s \in shorter, x \in PatternPieces}

\* the values a placeholder may have: plain, a token, an escape, the marker
ValuesOfE == {<<"a">>, <<"$", "f">>, <<"$", "$">>, MARKER}

ExpandPlaceholders ==
    LET withE == {<<>>} \cup {<<"e">> :> v : v \in ValuesOfE}
    IN  withE \cup {m @@ (<<"f">> :> <<"b">>) : m \in withE}

InitExpand ==
    /\ pc = "expand"
    /\ id_pattern \in Patterns(MaxPieces)
    /\ placeholders \in ExpandPlaceholders
    /\ expanded = NotExpanded
    /\ source = <<>>
    /\ pos = 0
    /\ map = <<>>
    /\ warnings = {}
    /\ entries = <<>>
    /\ given = <<>>
    /\ overrides = <<>>
    /\ sm_entries = <<>>
    /\ ps_entries = <<>>
    /\ unique_ids = <<>>
    /\ key_map = <<>>
    /\ secrets = NotCalled
    /\ calls = <<>>
    /\ reported = {}
    /\ output = <<>>
    /\ result = NoResult
    /\ lines = <<>>
    /\ formatted = <<>>
    /\ text = <<>>

\* lib.rs 100-126
Expand ==
    /\ pc = "expand"
    /\ expanded' = replace_placeholders(id_pattern, placeholders)
    /\ pc' = "expanded"
    /\ UNCHANGED <<parseVars, entries, result, resolveVars, id_pattern, fileVars>>

NextExpand == Expand

SpecExpand == InitExpand /\ [][NextExpand]_vars

(***************************************************************************)
(* Properties.                                                              *)
(***************************************************************************)
Providers == {"AwsSm", "AwsPs"}

HasDirective(e) == e.secret # None
ProviderOf(e) == Unwrap(e.secret).provider
IsRequired(e) == Unwrap(e.secret).required
\* the identifier of an entry after expansion
ExpandedId(e) == replace_placeholders(Unwrap(e.secret).id, placeholders).value
\* the backend of the entry answered `status` for its identifier
Answered(e, status) == <<ProviderOf(e), ExpandedId(e), status>> \in reported

\* process_entries built its mapping (lib.rs 83-86)
Collected == pc = "overrides" \/ (pc = "done" /\ result.kind = "Ok")
Returned == pc = "done"

Overridden(k) == \E j \in 1..Len(overrides) : overrides[j][1] = k

NoDuplicates(s) == \A i, j \in 1..Len(s) : i # j => s[i] # s[j]

RECURSIVE SentIdsFrom(_, _)
\* the identifiers sent to a provider, call after call, from call k on
SentIdsFrom(p, k) ==
    IF k > Len(calls) THEN <<>>
    ELSE (IF calls[k].provider = p THEN calls[k].ids ELSE <<>>) \o SentIdsFrom(p, k + 1)

SentIds(p) == SentIdsFrom(p, 1)

GroupOf(p) == IF p = "AwsSm" THEN sm_entries ELSE ps_entries

\* C1 (as claimed): whenever the backend of a required entry reported its
\* expanded identifier as not found, process_entries returns
\* Err(ParameterNotFound(that identifier)).
C1_RequiredNotFoundIsParameterNotFound ==
    Returned =>
        \A i \in 1..Len(given) :
            (HasDirective(given[i]) /\ IsRequired(given[i]) /\ Answered(given[i], "not_found"))
                => result = Err("ParameterNotFound", ExpandedId(given[i]))

\* no failure other than an optional identifier not found
NoOtherFailure ==
    /\ result.error \notin {"PlaceholderMissing", "AwsSmSdkError", "AwsPsSdkError"}
    /\ \A a \in reported : a[3] # "denied"
    /\ \A i \in 1..Len(given) :
           HasDirective(given[i]) /\ IsRequired(given[i]) => ~Answered(given[i], "not_found")

\* C2 (as claimed): when the backend of an @optional entry reported its
\* identifier as not found and nothing else failed, process_entries returns
\* Ok and the entry's value is its default: the key maps to the default (or to
\* its override), and is absent when there is no default.
C2_OptionalNotFoundFallsBack ==
    (Returned /\ NoOtherFailure) =>
        \A i \in 1..Len(given) :
            (HasDirective(given[i]) /\ ~IsRequired(given[i]) /\ Answered(given[i], "not_found"))
                => /\ result.kind = "Ok"
                   /\ ~Overridden(given[i].key)
                        => IndexMapGet(result.map, given[i].key) = given[i].value

\* C3: in the mapping process_entries builds, an entry whose backend returned
\* a value for its expanded identifier maps to that value, whatever default it
\* had, and an entry without a directive has its default_value (none included).
C3_FetchedReplacesDefault ==
    Collected =>
        \A i \in 1..Len(given) :
            /\ entries[i].key = given[i].key
            /\ IF HasDirective(given[i])
               THEN Answered(given[i], "found") =>
                        /\ entries[i].value = Some(SecretOf(ProviderOf(given[i]), ExpandedId(given[i])))
                        /\ IndexMapGet(output, given[i].key) = entries[i].value
               ELSE /\ entries[i].value = given[i].value
                    /\ IndexMapGet(output, given[i].key) = given[i].value

C3_Witness ==
    /\ pc = "overrides"
    /\ \E i, j \in 1..Len(given) :
        /\ HasDirective(given[i]) /\ given[i].value # None /\ Answered(given[i], "found")
        /\ IndexMapGet(output, given[i].key) # given[i].value
        /\ ~HasDirective(given[j]) /\ given[j].value # None

\* C4: in the mapping returned, every override key maps to its override value;
\* the keys of the mapping built from the entries keep their positions, and
\* their values unless overridden; the override keys that are new follow them
\* in the order of the overrides.
C4_OverridesWin ==
    (Returned /\ result.kind = "Ok") =>
        LET final == result.map
            n == Len(output)
        IN  /\ \A j \in 1..Len(overrides) :
                   IndexMapGet(final, overrides[j][1]) = Some(overrides[j][2])
            /\ Len(final) >= n
            /\ \A q \in 1..n :
                   /\ final[q][1] = output[q][1]
                   /\ ~Overridden(output[q][1]) => final[q][2] = output[q][2]
            /\ Keys(SubSeq(final, n + 1, Len(final)))
                   = SelectSeq(Keys(overrides), LAMBDA k : ~ContainsKey(output, k))

C4_Witness ==
    /\ Returned /\ result.kind = "Ok"
    /\ Len(output) >= 2
    /\ Len(overrides) = 2
    /\ ~ContainsKey(output, overrides[1][1])
    /\ overrides[2][1] = output[1][1]
    /\ output[1][2] # overrides[2][2]
    /\ HasDirective(given[1])
    /\ Len(result.map) = Len(output) + 1

\* C5: the mapping built before the overrides holds exactly the entries that
\* have a value, in declaration order, each with its value; an entry without
\* default and without directive is not in it.
C5_OnlyValuedEntriesInOrder ==
    Collected =>
        /\ \A i \in 1..Len(entries) :
               IF entries[i].value # None
               THEN IndexMapGet(output, entries[i].key) = entries[i].value
               ELSE ~ContainsKey(output, entries[i].key)
        /\ \A q \in 1..Len(output) : \E i \in 1..Len(entries) : entries[i].key = output[q][1]
        /\ \A q, r \in 1..Len(output) :
               q < r => \E i, j \in 1..Len(entries) :
                           i < j /\ entries[i].key = output[q][1] /\ entries[j].key = output[r][1]
        /\ \A i \in 1..Len(given) :
               (given[i].value = None /\ ~HasDirective(given[i])) => ~ContainsKey(output, given[i].key)

C5_Witness ==
    /\ pc = "overrides"
    /\ Len(given) = 2
    /\ given[1].value # None /\ ~HasDirective(given[1])
    /\ given[2].value = None /\ ~HasDirective(given[2])
    /\ Keys(output) = <<given[1].key>>

Occurrences(k) == {i \in 1..Len(source) : source[i].pair_ident = k}
SourceKeys == {source[i].pair_ident : i \in 1..Len(source)}
Largest(S) == CHOOSE x \in S : \A y \in S : y <= x
Smallest(S) == CHOOSE x \in S : \A y \in S : x <= y

\* C6: parse returns one entry per declared key, with the default value and
\* the directive of the key's last declaration, the entries in the order of
\* their keys' first declarations; duplicates are no error.
C6_LastDeclarationWins ==
    pc = "parsed" =>
        /\ result.kind = "parsed"
        /\ \A k \in SourceKeys : Cardinality({q \in 1..Len(entries) : entries[q].key = k}) = 1
        /\ \A q \in 1..Len(entries) :
               /\ entries[q].key \in SourceKeys
               /\ LET last == source[Largest(Occurrences(entries[q].key))]
                  IN  /\ entries[q].value = DefaultValue(PairValue(last.rule, last.raw_value))
                      /\ entries[q].secret = DirectiveSecret(last.directive)
        /\ \A q, r \in 1..Len(entries) :
               q < r => Smallest(Occurrences(entries[q].key)) < Smallest(Occurrences(entries[r].key))

C6_Witness ==
    /\ pc = "parsed"
    /\ Len(source) = 3
    /\ source[1].pair_ident = source[3].pair_ident
    /\ source[2].pair_ident # source[1].pair_ident
    /\ source[1].directive # None /\ source[3].directive = None
    /\ source[1].raw_value # source[3].raw_value
    /\ Len(entries) = 2
    /\ entries[1].key = source[1].pair_ident
    /\ entries[1].secret = None
    /\ warnings = {source[1].pair_ident}

\* C7: for each provider no identifier is sent twice, in one request or in
\* two; when the provider returns, every distinct expanded identifier of its
\* group has been sent, and the result at each position is the value fetched
\* for the identifier at that position, so entries naming one identifier get
\* the same value.
C7_EachIdentifierFetchedOnce ==
    /\ \A p \in Providers : NoDuplicates(SentIds(p))
    /\ secrets.kind = "Ok" =>
          LET group == GroupOf(secrets.provider)
          IN  /\ Range(SentIds(secrets.provider)) = Range(IdsOf(group))
              /\ Len(secrets.vals) = Len(group)
              /\ \A j \in 1..Len(group) :
                     secrets.vals[j] = Some(SecretOf(secrets.provider, group[j][2]))
    /\ Collected =>
          \A p \in Providers : \A j \in 1..Len(GroupOf(p)) :
              entries[GroupOf(p)[j][1]].value = Some(SecretOf(p, GroupOf(p)[j][2]))

C7_Witness ==
    /\ Collected
    /\ Len(calls) = 2
    /\ calls[1].provider = calls[2].provider
    /\ \E i, j \in 1..Len(given) :
          /\ i # j
          /\ ExpandedId(given[i]) = ExpandedId(given[j])
          /\ entries[i].value = entries[j].value
          /\ entries[i].value # None

\* C8 (as claimed): a request to Secrets Manager carries at most 20
\* identifiers and a request to the Parameter Store at most 10.
C8_BatchLimits ==
    \A k \in 1..Len(calls) :
        Len(calls[k].ids) <= (IF calls[k].provider = "AwsSm" THEN 20 ELSE 10)

\* C9 (as claimed): a Parameter Store provider call in which no request failed
\* as a whole returns Ok, with None for the names the store reported invalid
\* and the fetched value for every other identifier.
C9_InvalidNamesAreAbsent ==
    (secrets.provider = "AwsPs" /\ secrets.error # "AwsPsSdkError") =>
        /\ secrets.kind = "Ok"
        /\ \A j \in 1..Len(ps_entries) :
               secrets.vals[j] = IF <<"AwsPs", ps_entries[j][2], "not_found">> \in reported
                                 THEN None
                                 ELSE Some(SecretOf("AwsPs", ps_entries[j][2]))

\* C10 (as claimed): a Secrets Manager provider call that met a transport
\* error or an API error other than "not found" ends the resolution with that
\* backend error and no mapping; otherwise it returns Ok, with None for the
\* identifiers reported not found and the fetched value for the others.
C10_NotFoundIsPerIdentifier ==
    secrets.provider = "AwsSm" =>
        IF secrets.error = "AwsSmSdkError" \/ \E a \in reported : a[1] = "AwsSm" /\ a[3] = "denied"
        THEN /\ secrets.kind = "Err"
             /\ Returned
             /\ result.kind = "Err"
             /\ result.error \in {"AwsSmSdkError", "AwsSmApiError"}
             /\ result.map = <<>>
        ELSE /\ secrets.kind = "Ok"
             /\ \A j \in 1..Len(sm_entries) :
                    secrets.vals[j] = IF <<"AwsSm", sm_entries[j][2], "not_found">> \in reported
                                      THEN None
                                      ELSE Some(SecretOf("AwsSm", sm_entries[j][2]))

(***************************************************************************)
(* Placeholder expansion as documented: the pattern is read left to right,  *)
(* "$$" is an escape for "$", "$" followed by word characters is a token.   *)
(***************************************************************************)
RECURSIVE Tokens(_)
\* the pattern as a sequence of [kind, text]: "token" (text the name),
\* "escape" or "literal" (text the character)
Tokens(s) ==
    IF s = <<>> THEN <<>>
    ELSE IF StartsWith(s, <<"$", "$">>)
    THEN <<[kind |-> "escape", text |-> <<"$">>]>> \o Tokens(Drop(s, 2))
    ELSE IF s[1] = "$" /\ WordPrefix(Drop(s, 1)) # <<>>
    THEN LET name == WordPrefix(Drop(s, 1))
         IN  <<[kind |-> "token", text |-> name]>> \o Tokens(Drop(s, 1 + Len(name)))
    ELSE <<[kind |-> "literal", text |-> <<s[1]>>]>> \o Tokens(Drop(s, 1))

\* the names of the tokens with no entry in ph, left to right
MissingNames(s, ph) ==
    LET t == Tokens(s)
        F[i \in 0..Len(t)] ==
            IF i = 0 THEN <<>>
            ELSE IF t[i].kind = "token" /\ t[i].text \notin DOMAIN ph
            THEN Append(F[i - 1], t[i].text)
            ELSE F[i - 1]
    IN  F[Len(t)]

\* every token replaced by its value, every escape by "$"
Substituted(s, ph) ==
    LET t == Tokens(s)
        F[i \in 0..Len(t)] ==
            IF i = 0 THEN <<>>
            ELSE F[i - 1] \o (IF t[i].kind = "token" THEN ph[t[i].text] ELSE t[i].text)
    IN  F[Len(t)]

Expanded == pc = "expanded"

\* C11 (as claimed): when every token of the pattern is defined in
\* placeholders, replace_placeholders returns Ok with the pattern in which
\* each token is replaced by its value and each "$$" by "$"; the characters
\* after a "$$" are not read as a name.
C11_ExpansionReplacesTokens ==
    (Expanded /\ MissingNames(id_pattern, placeholders) = <<>>) =>
        expanded = [err |-> None, value |-> Substituted(id_pattern, placeholders)]

\* C12 (as claimed): when some token of the pattern has no entry in
\* placeholders, replace_placeholders returns PlaceholderMissing with the
\* name of the first such token, left to right.
C12_FirstMissingNameReported ==
    (Expanded /\ MissingNames(id_pattern, placeholders) # <<>>) =>
        expanded.err = Some(MissingNames(id_pattern, placeholders)[1])

\* C17 (as claimed): a pattern made of one defined token, followed or not by
\* a literal, expands to the token's value as it is, whatever the value
\* holds: a token, a "$$" or the escape marker.
C17_ValuesInsertedVerbatim ==
    Expanded =>
        \A name \in DOMAIN placeholders : \A tail \in {<<>>, <<"/">>} :
            id_pattern = <<"$">> \o name \o tail
                => expanded = [err |-> None, value |-> placeholders[name] \o tail]

\* the line before line i that is not a plain comment (0 if none)
LineBefore(i) ==
    LET S == {j \in 1..(i - 1) : lines[j].class # "comment"}
    IN  IF S = {} THEN 0 ELSE Largest(S)

EntryOf(k) == entries[CHOOSE q \in 1..Len(entries) : entries[q].key = k]

PairsOf(es) == {<<es[i].key, Unwrap(es[i].value)>> : i \in {j \in 1..Len(es) : es[j].value # None}}

\* C13 (as claimed): the text EnvFormatter renders for a set of pairs parses
\* without error, and parse returns the same set of <<key, value>> pairs.
C13_RoundTrip ==
    /\ (pc = "done" /\ text # <<>>) => result.kind # "Err"
    /\ (pc = "parsed" /\ text # <<>>) => PairsOf(entries) = Range(formatted)

\* the entries whose id pattern does not expand
FailingEntries ==
    { i \in 1..Len(given) :
        /\ HasDirective(given[i])
        /\ replace_placeholders(Unwrap(given[i].secret).id, placeholders).err # None }

\* C15: when the id pattern of some entry does not expand, no request is
\* ever sent to a backend, and process_entries returns the PlaceholderMissing
\* error of the first such entry in declaration order, whichever provider
\* the entries name.
C15_ExpansionFailsFast ==
    FailingEntries # {} =>
        /\ calls = <<>>
        /\ reported = {}
        /\ pc \in {"resolve", "done"}
        /\ Returned =>
              LET first == given[Smallest(FailingEntries)]
              IN  result = Err("PlaceholderMissing",
                               Unwrap(replace_placeholders(Unwrap(first.secret).id,
                                                           placeholders).err))

C15_Witness ==
    /\ Returned
    /\ Cardinality(FailingEntries) = 2
    /\ ProviderOf(given[1]) = "AwsPs" /\ ProviderOf(given[2]) = "AwsSm"
    /\ result = Err("PlaceholderMissing", <<"e">>)
    /\ replace_placeholders(Unwrap(given[2].secret).id, placeholders).err = Some(<<"f">>)
    /\ calls = <<>>

\* the distinct identifiers of the entries that name provider p
DirectiveIds(p) ==
    { ExpandedId(given[i]) :
        i \in {j \in 1..Len(given) : HasDirective(given[j]) /\ ProviderOf(given[j]) = p} }

CallsTo(p) == {k \in 1..Len(calls) : calls[k].provider = p}

ChunkSizeOf(p) == IF p = "AwsSm" THEN SmChunkSize ELSE PsChunkSize

\* C16: a provider receives requests only for identifiers of entries that
\* name it (none when no entry does), no identifier twice, and no more
\* requests than its distinct identifiers make chunks; once a provider call
\* has failed the operation has returned, the failed request being the last
\* one sent, and the Parameter Store is not called after a Secrets Manager
\* failure.
C16_BackendCalledOncePerChunk ==
    /\ \A p \in Providers :
          LET d == Cardinality(DirectiveIds(p))
              c == ChunkSizeOf(p)
          IN  /\ Range(SentIds(p)) \subseteq DirectiveIds(p)
              /\ NoDuplicates(SentIds(p))
              /\ Cardinality(CallsTo(p)) <= (d + c - 1) \div c
              /\ \A k \in CallsTo(p) : calls[k].ids # <<>>
    /\ result.kind = "Err" => pc = "done"
    /\ secrets.kind = "Err" =>
          /\ pc = "done" /\ result.kind = "Err"
          /\ calls[Len(calls)].provider = secrets.provider
          /\ secrets.provider = "AwsSm" => CallsTo("AwsPs") = {}

C16_Witness ==
    /\ Returned
    /\ secrets.kind = "Err" /\ secrets.provider = "AwsSm"
    /\ Len(calls) = 1
    /\ ps_entries # <<>>
    /\ DirectiveIds("AwsPs") # {}

\* the entries whose backend reported their identifier as not found
NotFoundEntries ==
    {i \in 1..Len(given) : HasDirective(given[i]) /\ Answered(given[i], "not_found")}

\* C18 (as claimed): the result is decided by the entries, the placeholders,
\* the overrides and what the backends hold: when identifiers are not found,
\* the ParameterNotFound returned names the identifier of the first entry,
\* in declaration order, whose identifier the backend lacks.
C18_FirstFailureReported ==
    (Returned /\ result.error = "ParameterNotFound") =>
        /\ NotFoundEntries # {}
        /\ result.arg = ExpandedId(given[Smallest(NotFoundEntries)])

====
